---- MODULE Spec2Model ----
(***************************************************************************)
(* A model of backend/app.py: the two file pools (uploads, edited_images), *)
(* the upload handler, the apply-all edit handler (run by concurrent       *)
(* request threads, split at its file-system and clock accesses), and the  *)
(* analyze handler.                                                        *)
(*                                                                         *)
(* A filename is a sequence of tokens; "_" and "." are tokens of their own *)
(* and no other token contains either, so splitext and split('_') act on   *)
(* tokens as they act on characters.  An image is a sequence of RGB pixels *)
(* (the codec is abstracted: a saved image decodes to the pixels saved).   *)
(* A factor is held in halves: h stands for h/2.                           *)
(***************************************************************************)
EXTENDS Integers, Sequences, FiniteSets, TLC

\* uploads, edited   the two folders: filename -> file content
\* now               the millisecond reading of time.time()
\* th                each request thread's place in apply_all_edits and its locals
\* log               the finished apply-all calls: request and response
\* resp              the last analyze response
\* origin            for each derived file, the file its chain of edits began with
\* nUploads, limits  how many uploads and calls a behaviour has had and may have
\* removesOnError    whether the installed Pillow removes a file a failed save created
VARIABLES uploads, edited, now, th, log, resp, origin, nUploads, removesOnError, limits

vars == <<uploads, edited, now, th, log, resp, origin, nUploads, removesOnError, limits>>

\* ---------------------------------------------------------------- bounds
MaxTime == 2
MaxCalls == 2
MaxUploads == 2
MaxPixels == 2
StoreUploads == 1
StoreCalls == 1

Threads == {1, 2}

\* ------------------------------------------------------------- constants
UPLOAD_FOLDER == "uploads"
EDITED_FOLDER == "edited_images"

\* ------------------------------------------------------------- filenames
NameA == <<"a", ".", "jpg">>
NameAB == <<"a", "_", "b", ".", "jpg">>
NameNoExt == <<"a">>
NameDerived == <<"a", "_", "edited", "_", "1", ".", "jpg">>
NameMissing == <<"z", ".", "jpg">>
NoName == <<>>

UploadNames == {NameA, NameAB, NameNoExt, NameDerived}

\* ---------------------------------------------------------------- images
Px(r, g, b) == <<r, g, b>>
Gray(v) == <<v, v, v>>

Img(o, p) == [kind |-> "image", orient |-> o, px |-> p]
Corrupt == [kind |-> "corrupt", orient |-> 1, px |-> <<>>]
Partial == [kind |-> "partial", orient |-> 1, px |-> <<>>]

ImgColor == Img(3, <<Px(200, 40, 40), Px(20, 90, 60)>>)
ImgGray == Img(1, <<Gray(70), Gray(70)>>)

UploadContents == {Corrupt, ImgGray}

\* The images the edit stages are run on: ImgColor, and its pixels upright.
PipelineImages == {ImgColor, ImgGray, Img(1, <<Px(200, 40, 40), Px(20, 90, 60)>>)}

\* The images analyze is run on: every row of up to MaxPixels pixels of a
\* palette whose lumas and saturations put the three metrics below, on and
\* above each threshold.
Palette ==
  {Gray(0), Gray(20), Gray(40), Gray(70), Gray(180), Gray(255),
   Px(69, 114, 110), Px(51, 235, 238), Px(255, 0, 0)}

AnalysisImages ==
  {Img(1, p) : p \in UNION {[1..n -> Palette] : n \in 1..MaxPixels}}

\* ------------------------------------------------------------ edit values
Num(h) == [t |-> "num", h |-> h]
Bool(b) == [t |-> "bool", h |-> b]
Str == [t |-> "str", h |-> 1]

\* ------------------------------------------------------- sequence helpers
RECURSIVE SumSeq(_)
SumSeq(s) == IF s = <<>> THEN 0 ELSE Head(s) + SumSeq(Tail(s))

Reverse(s) == [i \in 1..Len(s) |-> s[Len(s) + 1 - i]]

Range(s) == {s[i] : i \in 1..Len(s)}

Max2(a, b) == IF a >= b THEN a ELSE b
Min2(a, b) == IF a <= b THEN a ELSE b

\* ----------------------------------------------------------- os.path, str
\* os.path.exists(os.path.join(folder, filename))
Pool(folder) == IF folder = EDITED_FOLDER THEN edited ELSE uploads

exists(folder, filename) == filename \in DOMAIN Pool(folder)

NoPath == [folder |-> "", name |-> <<>>]
Path(folder, filename) == [folder |-> folder, name |-> filename]

\* os.path.splitext: split at the last dot, unless only dots precede it.
LastDot(s) ==
  IF \E i \in 1..Len(s) : s[i] = "."
  THEN CHOOSE i \in 1..Len(s) : s[i] = "." /\ \A j \in (i+1)..Len(s) : s[j] # "."
  ELSE 0

splitext(s) ==
  LET d == LastDot(s)
  IN IF d > 0 /\ \E j \in 1..(d-1) : s[j] # "."
     THEN <<SubSeq(s, 1, d - 1), SubSeq(s, d, Len(s))>>
     ELSE <<s, <<>>>>

\* name.split('_')[0]
SplitFirst(s) ==
  IF \E i \in 1..Len(s) : s[i] = "_"
  THEN LET k == CHOOSE i \in 1..Len(s) : s[i] = "_" /\ \A j \in 1..(i-1) : s[j] # "_"
       IN SubSeq(s, 1, k - 1)
  ELSE s

\* ---------------------------------------------------------- the handlers
\* (a variant that searches the uploads first)
FolderOrderUploadsFirst == <<UPLOAD_FOLDER, EDITED_FOLDER>>

\* Line 64: the folders get_image_path searches, in order.
FolderOrder == <<EDITED_FOLDER, UPLOAD_FOLDER>>

RECURSIVE FirstExisting(_, _)
FirstExisting(folders, filename) ==
  IF folders = <<>> THEN NoPath
  ELSE IF exists(Head(folders), filename) THEN Path(Head(folders), filename)
  ELSE FirstExisting(Tail(folders), filename)

get_image_path(filename) == FirstExisting(FolderOrder, filename)

get_new_edited_filename(filename, suffix, timestamp) ==
  LET se == splitext(filename)
      name == SplitFirst(se[1])
  IN name \o <<"_", suffix, "_", ToString(timestamp)>> \o se[2]

\* ------------------------------------------------- Pillow, as app.py uses it
Decodable(content) == content.kind = "image"

\* ImageOps.exif_transpose on a one-row image: orientation 3 is a half turn.
exif_transpose(content) ==
  IF content.orient = 3 THEN Reverse(content.px) ELSE content.px

\* Image.blend(im1, im2, alpha) on one channel, alpha = h/2, clamped to 0..255.
Blend(a, b, h) ==
  LET twice == 2 * a + h * (b - a)
  IN IF twice <= 0 THEN 0 ELSE IF twice >= 510 THEN 255 ELSE twice \div 2

\* convert('L') of one RGB pixel (ITU-R 601-2 luma, 16-bit fixed point).
Luma(p) == (p[1] * 19595 + p[2] * 38470 + p[3] * 7471 + 32768) \div 65536

ToL(px) == [i \in 1..Len(px) |-> Luma(px[i])]

\* convert('HSV')[:, :, 1] of one RGB pixel.
Saturation(p) ==
  LET mx == Max2(p[1], Max2(p[2], p[3]))
      mn == Min2(p[1], Min2(p[2], p[3]))
  IN IF mx = mn THEN 0 ELSE (255 * (mx - mn)) \div mx

ToS(px) == [i \in 1..Len(px) |-> Saturation(px[i])]

\* ImageEnhance.Brightness(img).enhance(h/2): blend with black.
Brightness(px, h) ==
  [i \in 1..Len(px) |-> [c \in 1..3 |-> Blend(0, px[i][c], h)]]

\* ImageEnhance.Contrast(img).enhance(h/2): blend with the rounded mean luma.
MeanLuma(px) == (2 * SumSeq(ToL(px)) + Len(px)) \div (2 * Len(px))

Contrast(px, h) ==
  LET m == MeanLuma(px)
  IN [i \in 1..Len(px) |-> [c \in 1..3 |-> Blend(m, px[i][c], h)]]

\* img.convert('L').convert('RGB')
Grayscale(px) == [i \in 1..Len(px) |-> Gray(Luma(px[i]))]

\* ------------------------------------------------------ the edits mapping
\* edits arrives as a JSON object: key/value pairs in the client's order.
HasKey(edits, k) == \E i \in 1..Len(edits) : edits[i][1] = k
Get(edits, k) == edits[CHOOSE i \in 1..Len(edits) : edits[i][1] = k][2]

\* A number as Pillow's float(): True is 1.0, False is 0.0.
NumH(v) == IF v.t = "bool" THEN 2 * v.h ELSE v.h

\* A str where a number is needed raises TypeError.
IsNumber(v) == v.t \in {"num", "bool"}

\* edits['grayscale'] > 0
GrayscaleRuns(v) == NumH(v) > 0

Start(px) == [px |-> px, stages |-> <<>>, err |-> FALSE]

StageBrightness(st, edits) ==
  IF st.err \/ ~HasKey(edits, "brightness") THEN st
  ELSE IF ~IsNumber(Get(edits, "brightness")) THEN [st EXCEPT !.err = TRUE]
  ELSE [px |-> Brightness(st.px, NumH(Get(edits, "brightness"))),
        stages |-> Append(st.stages, "brightness"), err |-> FALSE]

StageContrast(st, edits) ==
  IF st.err \/ ~HasKey(edits, "contrast") THEN st
  ELSE IF ~IsNumber(Get(edits, "contrast")) THEN [st EXCEPT !.err = TRUE]
  ELSE [px |-> Contrast(st.px, NumH(Get(edits, "contrast"))),
        stages |-> Append(st.stages, "contrast"), err |-> FALSE]

StageGrayscale(st, edits) ==
  IF st.err \/ ~HasKey(edits, "grayscale") THEN st
  ELSE IF ~IsNumber(Get(edits, "grayscale")) THEN [st EXCEPT !.err = TRUE]
  ELSE IF ~GrayscaleRuns(Get(edits, "grayscale")) THEN st
  ELSE [px |-> Grayscale(st.px),
        stages |-> Append(st.stages, "grayscale"), err |-> FALSE]

\* (a variant that runs the stages in the order the keys arrive in)
RECURSIVE StagesInKeyOrder(_, _, _)
StagesInKeyOrder(st, edits, i) ==
  IF i > Len(edits) THEN st
  ELSE LET k == edits[i][1]
           next == IF k = "brightness" THEN StageBrightness(st, edits)
                   ELSE IF k = "contrast" THEN StageContrast(st, edits)
                   ELSE IF k = "grayscale" THEN StageGrayscale(st, edits)
                   ELSE st
       IN StagesInKeyOrder(next, edits, i + 1)

PipelineInKeyOrder(px, edits) == StagesInKeyOrder(Start(px), edits, 1)

\* The stages of apply_all_edits, lines 96-105, in the order the code has them.
Pipeline(px, edits) ==
  StageGrayscale(StageContrast(StageBrightness(Start(px), edits), edits), edits)

\* ------------------------------------------------------------ edit requests
EditsNone == <<>>
EditsBC == << <<"brightness", Num(4)>>, <<"contrast", Num(3)>> >>
EditsCB == << <<"contrast", Num(3)>>, <<"brightness", Num(4)>> >>
EditsGrayOn == << <<"grayscale", Num(2)>> >>
EditsGrayNeg == << <<"grayscale", Num(-2)>> >>
EditsGrayStr == << <<"grayscale", Str>> >>

EditRequests == {EditsNone, EditsGrayStr}

EditsGrayOff == << <<"grayscale", Num(0)>> >>
EditsGrayTrue == << <<"grayscale", Bool(1)>> >>
EditsBrightStr == << <<"brightness", Str>>, <<"grayscale", Num(2)>> >>
EditsGCExtra ==
  << <<"grayscale", Num(2)>>, <<"vibrancy", Num(3)>>, <<"contrast", Num(1)>> >>

PipelineRequests ==
  {EditsNone, EditsBC, EditsCB, EditsGrayOn, EditsGrayOff, EditsGrayNeg,
   EditsGrayTrue, EditsBrightStr, EditsGCExtra}

\* ------------------------------------------------------------------ state
Idle == [pc |-> "idle", filename |-> <<>>, edits |-> <<>>, filepath |-> NoPath,
         src |-> <<>>, img |-> <<>>, stages |-> <<>>, new_filename |-> <<>>]

\* The last analyze response: the JSON body's keys and values, with the
\* request it answers (req) and the file it opened (path).
NoResponse == [req |-> <<>>, path |-> NoPath, status |-> 0, keys |-> {},
               filename |-> <<>>, recommendations |-> <<>>]

\* The state after the module is loaded (lines 13-16), before any request.
Start0(removes, maxUploads, maxCalls) ==
  /\ uploads = <<>>
  /\ edited = <<>>
  /\ now = 1
  /\ th = [t \in Threads |-> Idle]
  /\ log = <<>>
  /\ resp = NoResponse
  /\ origin = <<>>
  /\ nUploads = 0
  /\ removesOnError \in removes
  /\ limits = [uploads |-> maxUploads, calls |-> maxCalls]

\* removesOnError is the installed Pillow's behaviour when Image.save fails
\* after it created the file: later versions remove the file, earlier ones
\* leave what was written.  The application pins no version.
Init == Start0(BOOLEAN, MaxUploads, MaxCalls)

\* time.time() moves on between any two steps, or does not.
Tick ==
  /\ now < MaxTime
  /\ now' = now + 1
  /\ UNCHANGED <<uploads, edited, th, log, resp, origin, nUploads, removesOnError, limits>>

upload_file(filename, content) ==
  /\ nUploads < limits.uploads
  /\ IF filename = NoName
     THEN UNCHANGED <<uploads, nUploads>>
     ELSE /\ uploads' = (filename :> content) @@ uploads
          /\ nUploads' = nUploads + 1
  /\ UNCHANGED <<edited, now, th, log, resp, origin, removesOnError, limits>>

\* ---------------------------------------------------------- apply_all_edits
Started == Len(log) + Cardinality({t \in Threads : th[t].pc # "idle"})

\* What a finished call leaves in the log: its request and its response.
Entry(r, status) ==
  [filename |-> r.filename, edits |-> r.edits, status |-> status,
   folder |-> r.filepath.folder, src |-> r.src, out |-> r.img,
   stages |-> r.stages,
   new_filename |-> IF status = 200 THEN r.new_filename ELSE <<>>]

Finish(t, r, status) ==
  /\ log' = Append(log, Entry(r, status))
  /\ th' = [th EXCEPT ![t] = Idle]

\* Lines 80-89: read the request, resolve the source.
apply_Resolve(t, filename, edits) ==
  /\ th[t].pc = "idle"
  /\ Started < limits.calls
  /\ LET r == [Idle EXCEPT !.filename = filename, !.edits = edits,
                           !.filepath = get_image_path(filename)]
     IN IF filename = NoName THEN Finish(t, [r EXCEPT !.filepath = NoPath], 400)
        ELSE IF r.filepath = NoPath THEN Finish(t, r, 404)
        ELSE /\ th' = [th EXCEPT ![t] = [r EXCEPT !.pc = "process"]]
             /\ UNCHANGED log
  /\ UNCHANGED <<uploads, edited, now, resp, origin, nUploads, removesOnError, limits>>

\* Lines 92-111: decode, normalise, run the stages, name the output.
apply_Process(t) ==
  /\ th[t].pc = "process"
  /\ LET r == th[t]
         content == Pool(r.filepath.folder)[r.filepath.name]
         px0 == exif_transpose(content)
         p == Pipeline(px0, r.edits)
     IN IF ~Decodable(content) THEN Finish(t, r, 500)
        ELSE IF p.err THEN Finish(t, [r EXCEPT !.src = px0], 500)
        ELSE /\ th' = [th EXCEPT ![t] =
                        [r EXCEPT !.pc = "save", !.src = px0, !.img = p.px,
                                  !.stages = p.stages,
                                  !.new_filename =
                                     get_new_edited_filename(r.filename, "edited", now)]]
             /\ UNCHANGED log
  /\ UNCHANGED <<uploads, edited, now, resp, origin, nUploads, removesOnError, limits>>

\* Image.save picks the format from the extension before it opens the file.
KnownExtension(filename) == splitext(filename)[2] = <<".", "jpg">>

\* The start of the chain of edits a source belongs to.
Root(r) ==
  IF r.filepath.folder = EDITED_FOLDER /\ r.filename \in DOMAIN origin
  THEN origin[r.filename] ELSE r.filename

\* Lines 113-118: img.save(new_filepath) opens the file for writing, which
\* empties a file already there, and writes into it; nothing in the handler
\* cleans up after a failed write.  A file that was there before the call
\* stays as the failed write left it.
save_ok(t) ==
  LET r == th[t]
  IN /\ KnownExtension(r.new_filename)
     /\ edited' = (r.new_filename :> Img(1, r.img)) @@ edited
     /\ origin' = (r.new_filename :> Root(r)) @@ origin
     /\ Finish(t, r, 200)

save_unknown_extension(t) ==
  LET r == th[t]
  IN /\ ~KnownExtension(r.new_filename)
     /\ UNCHANGED <<edited, origin>>
     /\ Finish(t, r, 500)

save_write_fails(t) ==
  LET r == th[t]
  IN /\ KnownExtension(r.new_filename)
     /\ \/ UNCHANGED edited
        \/ edited' = IF r.new_filename \notin DOMAIN edited /\ removesOnError
                     THEN edited
                     ELSE (r.new_filename :> Partial) @@ edited
     /\ UNCHANGED origin
     /\ Finish(t, r, 500)

apply_Save(t) ==
  /\ th[t].pc = "save"
  /\ \/ save_ok(t)
     \/ save_unknown_extension(t)
     \/ save_write_fails(t)
  /\ UNCHANGED <<uploads, now, resp, nUploads, removesOnError, limits>>

\* ------------------------------------------------------------ analyze_image
\* np.mean and np.std as exact fractions; np.std is held as its square.
np_mean(a) == [n |-> SumSeq(a), d |-> Len(a)]

np_var(a) ==
  LET sq == [i \in 1..Len(a) |-> a[i] * a[i]]
  IN [n |-> Len(a) * SumSeq(sq) - SumSeq(a) * SumSeq(a), d |-> Len(a) * Len(a)]

\* q < t and q > t for a fraction q; s < t and s > t for s the root of v.
Less(q, t) == q.n < t * q.d
Greater(q, t) == q.n > t * q.d
StdLess(v, t) == v.n < t * t * v.d
StdGreater(v, t) == v.n > t * t * v.d

\* (a variant whose lower band takes in the threshold)
brightness_recommendation_inclusive(brightness) ==
  IF ~Greater(brightness, 70)
  THEN "Image might be underexposed. Consider increasing brightness."
  ELSE IF Greater(brightness, 180)
  THEN "Image might be overexposed. Consider decreasing brightness."
  ELSE "Brightness seems balanced."

brightness_recommendation(brightness) ==
  IF Less(brightness, 70)
  THEN "Image might be underexposed. Consider increasing brightness."
  ELSE IF Greater(brightness, 180)
  THEN "Image might be overexposed. Consider decreasing brightness."
  ELSE "Brightness seems balanced."

contrast_recommendation(contrast) ==
  IF StdLess(contrast, 30)
  THEN "Image might lack contrast. Consider increasing contrast."
  ELSE IF StdGreater(contrast, 80)
  THEN "Image has good contrast."
  ELSE "Contrast seems balanced."

vibrancy_recommendation(vibrancy) ==
  IF StdLess(vibrancy, 50)
  THEN "Image might lack color vibrancy. Consider increasing saturation."
  ELSE IF StdGreater(vibrancy, 100)
  THEN "Image has good color vibrancy."
  ELSE "Color vibrancy seems balanced."

\* (a variant that keeps only the messages that ask for a change)
AppendIfCorrective(list, message) ==
  IF message \notin {"", "Brightness seems balanced.", "Contrast seems balanced.",
                     "Color vibrancy seems balanced."}
  THEN Append(list, message) ELSE list

\* Lines 169-172: each message is appended if it is not empty.
AppendIf(list, message) == IF message # "" THEN Append(list, message) ELSE list

recommendations(b, c, v) == AppendIf(AppendIf(AppendIf(<<>>, b), c), v)

ErrorResponse(filename, path, status) ==
  [req |-> filename, path |-> path, status |-> status, keys |-> {"error"},
   filename |-> <<>>, recommendations |-> <<>>]

\* Lines 127-174 on a decodable file.
Analysis(filename, path, content) ==
  LET px == exif_transpose(content)
      img_array == ToL(px)
      saturation == ToS(px)
  IN [req |-> filename, path |-> path, status |-> 200,
      keys |-> {"filename", "recommendations"},
      filename |-> filename,
      recommendations |->
        recommendations(brightness_recommendation(np_mean(img_array)),
                        contrast_recommendation(np_var(img_array)),
                        vibrancy_recommendation(np_var(saturation)))]

\* Lines 123-125: the file analyze opens.
original_filepath(filename) ==
  IF exists(UPLOAD_FOLDER, filename) THEN Path(UPLOAD_FOLDER, filename) ELSE NoPath

analyze_response(filename) ==
  LET path == original_filepath(filename)
  IN IF path = NoPath THEN ErrorResponse(filename, NoPath, 404)
     ELSE IF ~Decodable(Pool(path.folder)[path.name])
     THEN ErrorResponse(filename, path, 500)
     ELSE Analysis(filename, path, Pool(path.folder)[path.name])

\* (a variant that keeps the grayscale rendering it computed)
analyze_image_saving(filename) ==
  /\ resp' = analyze_response(filename)
  /\ IF resp'.status = 200
     THEN edited' = (filename :> Img(1, Grayscale(exif_transpose(uploads[filename]))))
                      @@ edited
     ELSE UNCHANGED edited
  /\ UNCHANGED <<uploads, now, th, log, origin, nUploads, removesOnError, limits>>

analyze_image(filename) ==
  /\ resp' = analyze_response(filename)
  /\ UNCHANGED <<uploads, edited, now, th, log, origin, nUploads, removesOnError, limits>>

\* The names a client asks for: what it has seen, a name never stored, none.
RequestNames == DOMAIN uploads \cup DOMAIN edited \cup {NameMissing, NoName}

Next ==
  \/ Tick
  \/ \E f \in UploadNames \cup {NoName}, c \in UploadContents : upload_file(f, c)
  \/ \E t \in Threads, f \in RequestNames, e \in EditRequests : apply_Resolve(t, f, e)
  \/ \E t \in Threads : apply_Process(t)
  \/ \E t \in Threads : apply_Save(t)
  \/ \E f \in RequestNames \ {NoName} : analyze_image(f)

Spec == Init /\ [][Next]_vars

\* The same program with a Pillow that removes the file a failed save created.
InitRemoving == Start0({TRUE}, MaxUploads, MaxCalls)

SpecRemoving == InitRemoving /\ [][Next]_vars

\* The same program over behaviours of StoreUploads uploads and StoreCalls calls.
InitStore == Start0(BOOLEAN, StoreUploads, StoreCalls)

SpecStore == InitStore /\ [][Next]_vars

\* --------------------------------------- analyze_image over chosen uploads
InitAnalyze ==
  /\ uploads \in {(f :> c) : f \in {NameA, NameAB}, c \in AnalysisImages \cup {Corrupt}}
  /\ edited = <<>>
  /\ now = 1
  /\ th = [t \in Threads |-> Idle]
  /\ log = <<>>
  /\ resp = NoResponse
  /\ origin = <<>>
  /\ nUploads = 1
  /\ removesOnError \in BOOLEAN
  /\ limits = [uploads |-> 1, calls |-> MaxCalls]

NextAnalyze == \E f \in DOMAIN uploads \cup {NameMissing} : analyze_image(f)

SpecAnalyze == InitAnalyze /\ [][NextAnalyze]_vars

\* ------------------------------- apply_all_edits over chosen edit requests
InitPipeline ==
  /\ uploads \in {(NameA :> c) : c \in PipelineImages}
  /\ edited = <<>>
  /\ now = 1
  /\ th = [t \in Threads |-> Idle]
  /\ log = <<>>
  /\ resp = NoResponse
  /\ origin = <<>>
  /\ nUploads = 1
  /\ removesOnError \in BOOLEAN
  /\ limits = [uploads |-> 1, calls |-> MaxCalls]

NextPipeline ==
  \/ Tick
  \/ \E e \in PipelineRequests : apply_Resolve(1, NameA, e)
  \/ apply_Process(1)
  \/ apply_Save(1)

SpecPipeline == InitPipeline /\ [][NextPipeline]_vars

\* ================================================================ claims
StageOrder == <<"brightness", "contrast", "grayscale">>
Suffix(ts) == <<"_", "edited", "_", ToString(ts)>>
Stamps == {ToString(ts) : ts \in 1..(MaxTime + 1)}
AsMap(edits) == Range(edits)

\* Truthiness of a JSON value: a number other than 0, true, a non-empty string.
Truthy(v) == IF v.t = "str" THEN v.h # 0 ELSE NumH(v) # 0

\* C1: any two successful apply-all calls on the same source filename return
\* different derived filenames.
C1_DerivedNamesDiffer ==
  \A i, j \in 1..Len(log) :
    (i < j /\ log[i].status = 200 /\ log[j].status = 200
       /\ log[i].filename = log[j].filename)
    => log[i].new_filename # log[j].new_filename

\* C2: an apply-all call that ends in an error leaves the derived pool as it
\* was: the step that ends it changes no file of edited_images.
C2_FailedEditLeavesPool ==
  [][(Len(log') = Len(log) + 1 /\ log'[Len(log')].status # 200)
       => edited' = edited]_vars

\* C3: get_image_path returns the derived copy when the name is in
\* edited_images, else the original when it is in uploads, else nothing.
C3_DerivedFirst ==
  /\ \A f \in RequestNames \ {NoName} :
       get_image_path(f) =
         IF f \in DOMAIN edited THEN Path(EDITED_FOLDER, f)
         ELSE IF f \in DOMAIN uploads THEN Path(UPLOAD_FOLDER, f)
         ELSE NoPath
  /\ \A t \in Threads :
       th[t].pc # "idle" =>
         /\ th[t].filepath.name = th[t].filename
         /\ th[t].filename \in DOMAIN Pool(th[t].filepath.folder)

\* A name in both pools, put into edited_images by an edit of the upload.
C3_Witness ==
  \E f \in DOMAIN uploads \cap DOMAIN edited :
    /\ get_image_path(f) = Path(EDITED_FOLDER, f)
    /\ \E i \in 1..Len(log) :
         /\ log[i].status = 200
         /\ log[i].folder = UPLOAD_FOLDER
         /\ log[i].new_filename = f

\* C4: analyze opens the file the edit pipeline's resolution gives for the
\* name: not found exactly when get_image_path finds nothing, else that file.
C4_AnalyzeResolvesLikeEdit ==
  [][resp' # resp => resp'.path = get_image_path(resp'.req)]_vars

\* C5: each classifier has three bands with strict comparisons; a metric
\* equal to a threshold (70, 180; 30, 80; 50, 100) is classified balanced.
C5_Bands ==
  resp.status = 200 =>
    LET px == uploads[resp.req].px
        n == Len(px)
        l == SumSeq(ToL(px))
        ll == SumSeq([i \in 1..n |-> Luma(px[i]) * Luma(px[i])])
        z == SumSeq(ToS(px))
        zz == SumSeq([i \in 1..n |-> Saturation(px[i]) * Saturation(px[i])])
        r == resp.recommendations
    IN /\ r[1] = IF l < 70 * n
                 THEN "Image might be underexposed. Consider increasing brightness."
                 ELSE IF l > 180 * n
                 THEN "Image might be overexposed. Consider decreasing brightness."
                 ELSE "Brightness seems balanced."
       /\ r[2] = IF n * ll - l * l < 900 * n * n
                 THEN "Image might lack contrast. Consider increasing contrast."
                 ELSE IF n * ll - l * l > 6400 * n * n
                 THEN "Image has good contrast."
                 ELSE "Contrast seems balanced."
       /\ r[3] = IF n * zz - z * z < 2500 * n * n
                 THEN "Image might lack color vibrancy. Consider increasing saturation."
                 ELSE IF n * zz - z * z > 10000 * n * n
                 THEN "Image has good color vibrancy."
                 ELSE "Color vibrancy seems balanced."

\* Brightness 70, contrast 30 and vibrancy 50 exactly, all three balanced.
C5_Witness ==
  /\ resp.status = 200
  /\ uploads[resp.req].px = <<Gray(40), Px(69, 114, 110)>>
  /\ resp.recommendations =
       <<"Brightness seems balanced.", "Contrast seems balanced.",
         "Color vibrancy seems balanced.">>

\* C6: a successful analyze returns the requested filename and exactly three
\* recommendations, for brightness, contrast and vibrancy in that order; a
\* failing analyze returns an error and no recommendations.
C6_ThreeOrNone ==
  resp.status # 0 =>
    IF resp.status = 200
    THEN /\ resp.keys = {"filename", "recommendations"}
         /\ resp.filename = resp.req
         /\ Len(resp.recommendations) = 3
         /\ resp.recommendations[1] \in
              {brightness_recommendation(np_mean(<<v>>)) : v \in {0, 128, 255}}
         /\ resp.recommendations[2] \in
              {contrast_recommendation(np_var(<<0, v>>)) : v \in {0, 100, 255}}
         /\ resp.recommendations[3] \in
              {vibrancy_recommendation(np_var(<<0, v>>)) : v \in {0, 150, 255}}
    ELSE /\ resp.status \in {404, 500}
         /\ resp.keys = {"error"}
         /\ resp.recommendations = <<>>

C6_Witness ==
  /\ resp.status = 200
  /\ resp.req = NameAB
  /\ resp.recommendations =
       <<"Image might be overexposed. Consider decreasing brightness.",
         "Image might lack contrast. Consider increasing contrast.",
         "Image might lack color vibrancy. Consider increasing saturation.">>

\* C7: the stages run in the order brightness, contrast, grayscale whatever
\* the order of the keys; a stage runs only if its key is there; two calls
\* with the same source image and the same key/value pairs run the same
\* stages and give the same image.
C7_CanonicalOrder ==
  \A i \in 1..Len(log) :
    log[i].status = 200 =>
      /\ log[i].stages =
           SelectSeq(StageOrder, LAMBDA k : k \in Range(log[i].stages))
      /\ \A k \in {"brightness", "contrast"} :
           k \in Range(log[i].stages) <=> HasKey(log[i].edits, k)
      /\ "grayscale" \in Range(log[i].stages) => HasKey(log[i].edits, "grayscale")
      /\ \A j \in 1..Len(log) :
           (log[j].status = 200 /\ log[j].src = log[i].src
              /\ AsMap(log[j].edits) = AsMap(log[i].edits))
           => log[j].out = log[i].out /\ log[j].stages = log[i].stages

C7_Witness ==
  \E i, j \in 1..Len(log) :
    /\ log[i].edits = EditsBC /\ log[j].edits = EditsCB
    /\ log[i].status = 200 /\ log[j].status = 200
    /\ log[i].src = log[j].src
    /\ log[i].out = log[j].out
    /\ log[i].out = Contrast(Brightness(log[i].src, 4), 3)
    /\ log[i].out # Brightness(Contrast(log[i].src, 3), 4)

\* C8: an analyze call changes no file of either pool.
C8_AnalyzeNeverWrites ==
  [][resp' # resp => (uploads' = uploads /\ edited' = edited)]_vars

C8_Witness ==
  /\ resp.status = 200
  /\ DOMAIN edited # {}
  /\ \E i \in 1..Len(log) : log[i].status = 200

\* C9: the grayscale stage runs exactly when the key is there with a truthy
\* value (negative numbers too), a grayscale value alone never fails the
\* edit, and every pixel of the output has three channels.
C9_GrayscaleWhenTruthy ==
  \A i \in 1..Len(log) :
    LET e == log[i]
        asked == HasKey(e.edits, "grayscale") /\ Truthy(Get(e.edits, "grayscale"))
    IN /\ e.status = 200 =>
            /\ "grayscale" \in Range(e.stages) <=> asked
            /\ \A p \in 1..Len(e.out) : Len(e.out[p]) = 3
       /\ ~(/\ e.status = 500 /\ e.src # <<>> /\ e.out = <<>>
            /\ \A k \in 1..Len(e.edits) : e.edits[k][1] = "grayscale")

\* C10: every derived filename is <base>_edited_<disambiguator><ext>, with
\* <base> the base name of the upload the chain of edits started from, less
\* any derived suffixes it carries, and <ext> its extension.
RECURSIVE StripDerived(_)
StripDerived(name) ==
  LET n == Len(name)
  IN IF n >= 4 /\ name[n-3] = "_" /\ name[n-2] = "edited" /\ name[n-1] = "_"
          /\ name[n] \in Stamps
     THEN StripDerived(SubSeq(name, 1, n - 4))
     ELSE name

C10_DerivedNameForm ==
  \A d \in DOMAIN origin :
    LET se == splitext(origin[d])
    IN \E ts \in 1..MaxTime : d = StripDerived(se[1]) \o Suffix(ts) \o se[2]
====
